---- MODULE Spec2Model ----
(***************************************************************************)
(* pipeline-core: the orchestration engine of scripts/pipeline.py          *)
(* (orchestrate, watchdog, spawn_role, update_status, update_flow_state,   *)
(* completion_ok), the transition tables of                                *)
(* orchestration/flow_state_machine.py, the run packet of                  *)
(* orchestration/run_packet.py and the standalone scripts/orchestrate.py.  *)
(* One run is modelled; the roster is the sequence of roles 1..n.          *)
(* Every invocation of a script is one step: the scripts are short-lived   *)
(* single-threaded processes that the scheduler runs one after another.    *)
(* The external worker and the wall clock are the environment.             *)
(***************************************************************************)
EXTENDS Integers, Sequences, FiniteSets, TLC

\* ---------------------------------------------------------------- bounds
MaxRoles == 2
MaxTicks == 2
MaxMinutes == 1

\* seconds between two readings of the wall clock in the model
TimeStep == 40
\* threshold = minutes * 60
SecondsPerMinute == 60

MaxClock == MaxTicks * TimeStep

\* a timestamp field that is null, and one that does not parse
NoTime == -1
InvalidTime == -2

NoRole == 0

\* the boxes of CHECKLIST.md as create_run writes it
NumBoxes == 7

VARIABLES
    n,          \* number of roles in roster/roles.yaml (roles are 1..n, in roster order)
    manifest,   \* manifests/<run_id>.json as load_manifest sees it
    status,     \* agents/<run_id>/<role>/status.json, per role
    inbox,      \* agents/<run_id>/<role>/inbox: the set of files written there
    output,     \* orchestration/runs/<run_id>/<role output> exists
    summary,    \* agents/<run_id>/<role>/outbox/summary.md exists
    working,    \* roles the external worker is executing (worker's own memory)
    clock,      \* wall clock, seconds
    lastOp,     \* the last invocation: which script, its outcome, its log line
    checklist,  \* orchestration/runs/<run_id>/CHECKLIST.md: box -> checked
    flow_sm,    \* FlowStateMachine.state of one instance
    role_sm,    \* RoleStateMachine.state of one instance
    call,       \* the last method call on a state machine and what it returned
    wd,         \* a watchdog process in the middle of its sweep
    sp          \* an orchestrate process in the middle of spawn_role

vars == <<n, manifest, status, inbox, output, summary, working, clock, lastOp,
          checklist, flow_sm, role_sm, call, wd, sp>>

\* what the run scripts and the worker never touch
approval == <<checklist>>
machines == <<flow_sm, role_sm, call>>

\* the processes that are in the middle of a call
inflight == <<wd, sp>>

Roles == 1..n

\* ------------------------------------------------- flow_state_machine.py
FlowStates == {"created", "pending", "running", "completed", "failed", "archived"}
RoleStates == {"pending", "running", "completed", "failed"}

FlowValidTransitions_pendingMayFail(s) ==
    CASE s = "created" -> {"pending"}
      [] s = "pending" -> {"running", "failed"}
      [] s = "running" -> {"completed", "failed"}
      [] s = "completed" -> {"archived"}
      [] s = "failed" -> {"archived"}
      [] OTHER -> {}

FlowValidTransitions(s) ==
    CASE s = "created" -> {"pending"}
      [] s = "pending" -> {"running"}
      [] s = "running" -> {"completed", "failed"}
      [] s = "completed" -> {"archived"}
      [] s = "failed" -> {"archived"}
      [] OTHER -> {}

RoleValidTransitions(s) ==
    CASE s = "pending" -> {"running"}
      [] s = "running" -> {"completed", "failed"}
      [] OTHER -> {}

\* transition: the state it leaves and whether it raised StateTransitionError
FlowStateMachine_transition(s, new_state) ==
    IF new_state \notin FlowValidTransitions(s)
    THEN [state |-> s, raised |-> TRUE]
    ELSE [state |-> new_state, raised |-> FALSE]

FlowStateMachine_can_transition(s, new_state) == new_state \in FlowValidTransitions(s)

FlowStateMachine_is_terminal_endStates(s) == s \in {"completed", "failed", "archived"}

FlowStateMachine_is_terminal(s) == Cardinality(FlowValidTransitions(s)) = 0

RoleStateMachine_transition_assignsFirst(s, new_state) ==
    [state |-> new_state, raised |-> new_state \notin RoleValidTransitions(s)]

RoleStateMachine_transition(s, new_state) ==
    IF new_state \notin RoleValidTransitions(s)
    THEN [state |-> s, raised |-> TRUE]
    ELSE [state |-> new_state, raised |-> FALSE]

RoleStateMachine_can_transition(s, new_state) == new_state \in RoleValidTransitions(s)

RoleStateMachine_is_terminal(s) == Cardinality(RoleValidTransitions(s)) = 0

NoCall == [machine |-> "none", method |-> "none", target |-> "none", result |-> "none"]

\* ------------------------------------------------------------ pipeline.py
TERMINAL_FLOW_STATES_withRunning == {"failed", "completed", "archived", "running"}

TERMINAL_FLOW_STATES == {"failed", "completed", "archived"}

NoError == [kind |-> "none", paths |-> <<>>, minutes |-> 0]
MissingOutputs(paths) == [kind |-> "missing_outputs", paths |-> paths, minutes |-> 0]
MissingStarted == [kind |-> "missing_started", paths |-> <<>>, minutes |-> 0]
InvalidStarted == [kind |-> "invalid_started", paths |-> <<>>, minutes |-> 0]
StaleRunning(minutes) == [kind |-> "stale_running", paths |-> <<>>, minutes |-> minutes]
WorkerError == [kind |-> "worker", paths |-> <<>>, minutes |-> 0]

\* no status.json in the role's directory
NoStatus == [state |-> "none", started |-> NoTime, completed |-> NoTime, error |-> NoError]

load_manifest == [current_role |-> NoRole, last_spawned_at |-> NoTime, flow_state |-> "created"]

update_flow_state_noTerminalCheck(m, new_state) ==
    IF m.flow_state # new_state
    THEN [m EXCEPT !.flow_state = new_state]
    ELSE m

update_flow_state(m, new_state) ==
    IF m.flow_state \notin TERMINAL_FLOW_STATES /\ m.flow_state # new_state
    THEN [m EXCEPT !.flow_state = new_state]
    ELSE m

ensure_agent_workspace(s) ==
    IF s = NoStatus
    THEN [state |-> "pending", started |-> NoTime, completed |-> NoTime, error |-> NoError]
    ELSE s

update_status(s, state, error, t) ==
    [state |-> state,
     started |-> IF state = "running" THEN t ELSE s.started,
     completed |-> IF state \in {"completed", "failed"} THEN t ELSE s.completed,
     error |-> error]

InboxFiles == {"instructions.md", "spawn_prompt.txt", "spawn_request.json"}

\* the status record spawn_role leaves
spawn_role(s, t) == update_status(ensure_agent_workspace(s), "pending", NoError, t)

\* the paths completion_ok reports missing, in the order it appends them
completion_missing(r) ==
    (IF output[r] THEN <<>> ELSE <<"output">>) \o (IF summary[r] THEN <<>> ELSE <<"summary">>)

completion_ok_outputOnly(r) == output[r]

completion_ok_summaryOnly(r) == summary[r]

completion_ok(r) == completion_missing(r) = <<>>

running_roles == {r \in Roles : status[r].state = "running"}

RoleBranch_runningPasses(s) ==
    CASE s.state \in {"completed", "running"} -> "validate"
      [] s.state = "failed" -> "halt"
      [] OTHER -> "spawn"

RoleBranch_failedPasses(s) ==
    CASE s.state \in {"completed", "failed"} -> "validate"
      [] s.state = "running" -> "wait"
      [] OTHER -> "spawn"

\* the branch the loop of orchestrate takes for a role with status s
RoleBranch(s) ==
    CASE s.state = "completed" -> "validate"
      [] s.state = "failed" -> "halt"
      [] s.state = "running" -> "wait"
      [] OTHER -> "spawn"

\* no sweep and no spawn under way
NoSweep == [role |-> NoRole, t |-> 0, minutes |-> 0, error |-> NoError]
NoSpawn == [role |-> NoRole, pc |-> 0, t |-> 0]

NoOutcome == [op |-> "none", outcome |-> "none", role |-> NoRole, error |-> NoError,
              minutes |-> 0, flow_writes |-> <<>>]

\* the flow-state writes of one call: the pairs (old, new) update_flow_state saved
FlowWrite(m0, m1) ==
    IF m0.flow_state # m1.flow_state THEN << <<m0.flow_state, m1.flow_state>> >> ELSE <<>>

RECURSIVE OrchestrateLoop(_, _, _)

OrchestrateLoop_noReturn(i, m, t) ==
    LET spawned == {r \in i..n : status[r].state \in {"none", "pending"}} IN
    IF spawned = {}
    THEN [manifest |-> m, status |-> status, inbox |-> inbox,
          outcome |-> "WAIT", role |-> NoRole, error |-> NoError]
    ELSE LET first == CHOOSE r \in spawned : \A q \in spawned : r <= q
             m1 == [m EXCEPT !.current_role = first, !.last_spawned_at = t]
         IN [manifest |-> IF m1.flow_state = "pending"
                          THEN update_flow_state(m1, "running") ELSE m1,
             status |-> [r \in Roles |-> IF r \in spawned
                                         THEN spawn_role(status[r], t) ELSE status[r]],
             inbox |-> [r \in Roles |-> IF r \in spawned THEN InboxFiles ELSE inbox[r]],
             outcome |-> "SPAWN", role |-> first, error |-> NoError]

OrchestrateLoop_keepsPending(i, m, t) ==
    IF i > n
    THEN [manifest |-> update_flow_state(m, "completed"), status |-> status,
          inbox |-> inbox, outcome |-> "DONE", role |-> NoRole, error |-> NoError]
    ELSE LET branch == RoleBranch(status[i]) IN
         CASE branch = "validate" ->
                IF completion_ok(i)
                THEN OrchestrateLoop(i + 1, m, t)
                ELSE LET err == MissingOutputs(completion_missing(i)) IN
                     [manifest |-> update_flow_state(m, "failed"),
                      status |-> [status EXCEPT ![i] = update_status(status[i], "failed", err, t)],
                      inbox |-> inbox, outcome |-> "FAILED", role |-> i, error |-> err]
           [] branch = "halt" ->
                [manifest |-> update_flow_state(m, "failed"), status |-> status,
                 inbox |-> inbox, outcome |-> "HALT", role |-> i, error |-> status[i].error]
           [] branch = "wait" ->
                [manifest |-> m, status |-> status,
                 inbox |-> inbox, outcome |-> "WAIT", role |-> i, error |-> NoError]
           [] OTHER ->
                [manifest |-> [m EXCEPT !.current_role = i, !.last_spawned_at = t],
                 status |-> [status EXCEPT ![i] = spawn_role(status[i], t)],
                 inbox |-> [inbox EXCEPT ![i] = InboxFiles],
                 outcome |-> "SPAWN", role |-> i, error |-> NoError]

\* the loop over the roster (pipeline.py 323-360), from position i with manifest m:
\* the manifest, the statuses and the inboxes it leaves, and how the call ends
OrchestrateLoop(i, m, t) ==
    IF i > n
    THEN [manifest |-> update_flow_state(m, "completed"), status |-> status,
          inbox |-> inbox, outcome |-> "DONE", role |-> NoRole, error |-> NoError]
    ELSE LET branch == RoleBranch(status[i]) IN
         CASE branch = "validate" ->
                IF completion_ok(i)
                THEN OrchestrateLoop(i + 1, m, t)
                ELSE LET err == MissingOutputs(completion_missing(i)) IN
                     [manifest |-> update_flow_state(m, "failed"),
                      status |-> [status EXCEPT ![i] = update_status(status[i], "failed", err, t)],
                      inbox |-> inbox, outcome |-> "FAILED", role |-> i, error |-> err]
           [] branch = "halt" ->
                [manifest |-> update_flow_state(m, "failed"), status |-> status,
                 inbox |-> inbox, outcome |-> "HALT", role |-> i, error |-> status[i].error]
           [] branch = "wait" ->
                [manifest |-> m, status |-> status,
                 inbox |-> inbox, outcome |-> "WAIT", role |-> i, error |-> NoError]
           [] OTHER ->
                LET m1 == [m EXCEPT !.current_role = i, !.last_spawned_at = t]
                    m2 == IF m1.flow_state = "pending"
                          THEN update_flow_state(m1, "running") ELSE m1
                IN [manifest |-> m2,
                    status |-> [status EXCEPT ![i] = spawn_role(status[i], t)],
                    inbox |-> [inbox EXCEPT ![i] = InboxFiles],
                    outcome |-> "SPAWN", role |-> i, error |-> NoError]

\* the clock readings an invocation can see: time does not go back
Now == {t \in {clock, clock + TimeStep} : t <= MaxClock}

\* pipeline.py orchestrate --run-id
Advance ==
    \E t \in Now :
      /\ LET m0 == manifest
             m1 == IF m0.flow_state = "created"
                   THEN update_flow_state(m0, "pending") ELSE m0
         IN IF Cardinality(running_roles) > 1
            THEN /\ manifest' = m1
                 /\ UNCHANGED <<status, inbox>>
                 /\ lastOp' = [op |-> "advance", outcome |-> "ABORT", role |-> NoRole,
                               error |-> NoError, minutes |-> 0,
                               flow_writes |-> FlowWrite(m0, m1)]
            ELSE LET res == OrchestrateLoop(1, m1, t) IN
                 /\ manifest' = res.manifest
                 /\ status' = res.status
                 /\ inbox' = res.inbox
                 /\ lastOp' = [op |-> "advance", outcome |-> res.outcome, role |-> res.role,
                               error |-> res.error, minutes |-> 0,
                               flow_writes |-> FlowWrite(m0, m1) \o FlowWrite(m1, res.manifest)]
      /\ clock' = t
      /\ UNCHANGED <<n, output, summary, working, approval, machines, inflight>>

WatchdogRole_thresholdInHours(s, t, minutes) ==
    IF s.state # "running" THEN s
    ELSE IF s.started = NoTime THEN update_status(s, "failed", MissingStarted, t)
    ELSE IF s.started = InvalidTime THEN update_status(s, "failed", InvalidStarted, t)
    ELSE IF t - s.started > minutes * SecondsPerMinute * SecondsPerMinute
         THEN update_status(s, "failed", StaleRunning(minutes), t)
         ELSE s

WatchdogRole_missingSkipped(s, t, minutes) ==
    IF s.state # "running" THEN s
    ELSE IF s.started = NoTime THEN s
    ELSE IF s.started = InvalidTime THEN update_status(s, "failed", InvalidStarted, t)
    ELSE IF t - s.started > minutes * SecondsPerMinute
         THEN update_status(s, "failed", StaleRunning(minutes), t)
         ELSE s

WatchdogRole_thresholdInMinutes(s, t, minutes) ==
    IF s.state # "running" THEN s
    ELSE IF s.started = NoTime THEN update_status(s, "failed", MissingStarted, t)
    ELSE IF s.started = InvalidTime THEN update_status(s, "failed", InvalidStarted, t)
    ELSE IF t - s.started > minutes
         THEN update_status(s, "failed", StaleRunning(minutes), t)
         ELSE s

\* what the sweep of watchdog does to one status record
WatchdogRole(s, t, minutes) ==
    IF s.state # "running" THEN s
    ELSE IF s.started = NoTime THEN update_status(s, "failed", MissingStarted, t)
    ELSE IF s.started = InvalidTime THEN update_status(s, "failed", InvalidStarted, t)
    ELSE IF t - s.started > minutes * SecondsPerMinute
         THEN update_status(s, "failed", StaleRunning(minutes), t)
         ELSE s

WatchdogManifest_failsFlow(m, swept) ==
    IF \E r \in Roles : swept[r] # status[r] THEN update_flow_state(m, "failed") ELSE m

\* the manifest after a sweep that left the statuses swept: watchdog loads the
\* manifest and never saves it
WatchdogManifest(m, swept) == m

\* pipeline.py watchdog --run-id --minutes
Watchdog ==
    \E t \in Now, minutes \in 0..MaxMinutes :
      /\ status' = [r \in Roles |-> WatchdogRole(status[r], t, minutes)]
      /\ manifest' = WatchdogManifest(manifest, status')
      /\ lastOp' = [op |-> "watchdog", outcome |-> "SWEEP", role |-> NoRole,
                    error |-> NoError, minutes |-> minutes, flow_writes |-> <<>>]
      /\ clock' = t
      /\ UNCHANGED <<n, inbox, output, summary, working, approval, machines, inflight>>

\* ------------------------------------------------------ the external worker
WorkerOp(kind, r) == [op |-> "worker", outcome |-> kind, role |-> r, error |-> NoError,
                      minutes |-> 0, flow_writes |-> <<>>]

\* the worker claims a spawned role: pending -> running
WorkerStart(r) ==
    \E t \in Now :
    \E started \in {NoTime, InvalidTime, t} :
      /\ status[r].state = "pending"
      /\ "spawn_request.json" \in inbox[r]
      /\ status' = [status EXCEPT ![r] = [@ EXCEPT !.state = "running", !.started = started]]
      /\ working' = working \cup {r}
      /\ lastOp' = WorkerOp("start", r)
      /\ clock' = t
      /\ UNCHANGED <<n, manifest, inbox, output, summary, approval, machines, inflight>>

WorkerWriteOutput(r) ==
    /\ r \in working
    /\ ~output[r]
    /\ output' = [output EXCEPT ![r] = TRUE]
    /\ lastOp' = WorkerOp("output", r)
    /\ UNCHANGED <<n, manifest, status, inbox, summary, working, clock, approval, machines, inflight>>

WorkerWriteSummary(r) ==
    /\ r \in working
    /\ ~summary[r]
    /\ summary' = [summary EXCEPT ![r] = TRUE]
    /\ lastOp' = WorkerOp("summary", r)
    /\ UNCHANGED <<n, manifest, status, inbox, output, working, clock, approval, machines, inflight>>

\* the terminal status record the worker writes
WorkerTerminal(s, state, t) ==
    [s EXCEPT !.state = state, !.completed = t,
              !.error = IF state = "failed" THEN WorkerError ELSE NoError]

\* running -> state, written by the worker
WorkerFinishAs(r, state) ==
    \E t \in Now :
      /\ r \in working
      /\ status[r].state = "running"
      /\ status' = [status EXCEPT ![r] = WorkerTerminal(@, state, t)]
      /\ working' = working \ {r}
      /\ lastOp' = WorkerOp("finish", r)
      /\ clock' = t
      /\ UNCHANGED <<n, manifest, inbox, output, summary, approval, machines, inflight>>

\* running -> completed / failed
WorkerFinish(r) == \E state \in {"completed", "failed"} : WorkerFinishAs(r, state)

\* the worker finishes a role after it delivered both files
WorkerComplete(r) == output[r] /\ summary[r] /\ WorkerFinishAs(r, "completed")

\* the worker, unaware that the watchdog failed the role it is executing,
\* still writes its terminal status
WorkerLateFinish(r) ==
    \E t \in Now, state \in {"completed", "failed"} :
      /\ r \in working
      /\ status[r].state = "failed"
      /\ status' = [status EXCEPT ![r] = WorkerTerminal(@, state, t)]
      /\ working' = working \ {r}
      /\ lastOp' = WorkerOp("late_finish", r)
      /\ clock' = t
      /\ UNCHANGED <<n, manifest, inbox, output, summary, approval, machines, inflight>>

\* ----------------------------------------------------------- orchestrate.py
\* ensure_agent_workspace of orchestrate.py writes status.json unconditionally
ensure_agent_workspace_standalone(s) ==
    [state |-> "pending", started |-> NoTime, completed |-> NoTime, error |-> NoError]

\* update_status of orchestrate.py: no error argument
update_status_standalone(s, state, t) ==
    [s EXCEPT !.state = state,
              !.started = IF state = "running" THEN t ELSE @,
              !.completed = IF state \in {"completed", "failed"} THEN t ELSE @]

\* spawn_role of orchestrate.py
spawn_role_standalone(s, t) ==
    update_status_standalone(ensure_agent_workspace_standalone(s), "running", t)

\* orchestrate.py --run-id: main spawns every role of the roster
OrchestrateMain ==
    \E t \in Now :
      /\ status' = [r \in Roles |-> spawn_role_standalone(status[r], t)]
      /\ inbox' = [r \in Roles |-> inbox[r] \cup {"instructions.md"}]
      /\ lastOp' = [op |-> "orchestrate_py", outcome |-> "PREPARED", role |-> NoRole,
                    error |-> NoError, minutes |-> 0, flow_writes |-> <<>>]
      /\ clock' = t
      /\ UNCHANGED <<n, manifest, output, summary, working, approval, machines, inflight>>

\* ------------------------------------------------------------------ run
\* create_run wrote the run packet; no manifest, no agent directory yet.
\* run_packet.py writes a placeholder for each output of its ROLES table, so
\* a roster output of the same name exists before any role ran.
InitRun ==
    /\ n \in 0..MaxRoles
    /\ manifest = load_manifest
    /\ status = [r \in Roles |-> NoStatus]
    /\ inbox = [r \in Roles |-> {}]
    /\ output \in [Roles -> BOOLEAN]
    /\ summary = [r \in Roles |-> FALSE]
    /\ working = {}
    /\ clock = 0
    /\ lastOp = NoOutcome
    /\ checklist = [b \in 1..NumBoxes |-> FALSE]
    /\ wd = NoSweep
    /\ sp = NoSpawn

\* the state machines as their constructors default them
InitMachines ==
    /\ flow_sm = "created"
    /\ role_sm = "pending"
    /\ call = NoCall

Init ==
    /\ InitRun
    /\ InitMachines

Worker ==
    \E r \in Roles : \/ WorkerStart(r)
                     \/ WorkerWriteOutput(r)
                     \/ WorkerWriteSummary(r)
                     \/ WorkerFinish(r)

Next == Advance \/ Watchdog \/ Worker

Spec == Init /\ [][Next]_vars

\* the worker may also write a terminal status after the watchdog failed its role
WorkerLate == \E r \in Roles : WorkerLateFinish(r)

NextLate == Advance \/ Watchdog \/ Worker \/ WorkerLate

SpecLate == Init /\ [][NextLate]_vars

\* the run is also driven by the standalone orchestrate.py
NextStandalone == Advance \/ Watchdog \/ Worker \/ OrchestrateMain

SpecStandalone == Init /\ [][NextStandalone]_vars

\* the worker of the two-role scenario: it delivers both files and completes
WorkerDelivers ==
    \E r \in Roles : \/ WorkerStart(r)
                     \/ WorkerWriteOutput(r)
                     \/ WorkerWriteSummary(r)
                     \/ WorkerComplete(r)

NextLive == Advance \/ WorkerDelivers

\* the scheduler keeps invoking orchestrate and the worker keeps working
SpecLive == Init /\ [][NextLive]_vars /\ WF_vars(Advance) /\ WF_vars(WorkerDelivers)

\* the roster's outputs are the outputs of run_packet's ROLES table: create_run
\* wrote a placeholder for each of them
InitPacket ==
    /\ Init
    /\ \A r \in Roles : output[r]

\* a worker that writes its summary and its status and never its output
WorkerNoOutput ==
    \E r \in Roles : \/ WorkerStart(r)
                     \/ WorkerWriteSummary(r)
                     \/ WorkerFinish(r)

NextPacket == Advance \/ Watchdog \/ WorkerNoOutput

SpecPacket == InitPacket /\ [][NextPacket]_vars

\* a worker that completes a role once its summary is written, or stops
\* before that and leaves the role running
WorkerMayStop ==
    \E r \in Roles : \/ WorkerStart(r)
                     \/ WorkerWriteSummary(r)
                     \/ WorkerComplete(r)

NextStuck == Advance \/ Watchdog \/ WorkerMayStop

\* a sweep at a later reading of the wall clock (at the end of the modelled
\* span of time the clock cannot move on, and every sweep counts)
WatchdogLater == Watchdog /\ (clock' > clock \/ clock = MaxClock)

\* the scheduler keeps invoking orchestrate and watchdog while time passes; the
\* worker is free to stop at any point
SpecStuck ==
    /\ InitPacket /\ [][NextStuck]_vars
    /\ WF_vars(Advance) /\ WF_vars(WatchdogLater)

\* ------------------------------------- watchdog, one file access at a time
\* the sweep moves on to the next role of the roster, or ends
SweepNext(w) == IF w.role < n THEN [w EXCEPT !.role = @ + 1, !.error = NoError] ELSE NoSweep

\* watchdog reads the clock and loads the roster
SweepBegin ==
    \E t \in Now, minutes \in 0..MaxMinutes :
      /\ wd = NoSweep
      /\ n >= 1
      /\ wd' = [role |-> 1, t |-> t, minutes |-> minutes, error |-> NoError]
      /\ lastOp' = [op |-> "watchdog", outcome |-> "BEGIN", role |-> NoRole,
                    error |-> NoError, minutes |-> minutes, flow_writes |-> <<>>]
      /\ clock' = t
      /\ UNCHANGED <<n, manifest, status, inbox, output, summary, working, approval,
                     machines, sp>>

\* load_status of the role the sweep is at, and the decision taken on what it read
SweepRead ==
    /\ wd.role \in Roles
    /\ wd.error = NoError
    /\ LET swept == WatchdogRole(status[wd.role], wd.t, wd.minutes) IN
       wd' = IF swept = status[wd.role] THEN SweepNext(wd)
                                        ELSE [wd EXCEPT !.error = swept.error]
    /\ lastOp' = [op |-> "watchdog", outcome |-> "READ", role |-> wd.role,
                  error |-> NoError, minutes |-> wd.minutes, flow_writes |-> <<>>]
    /\ UNCHANGED <<n, manifest, status, inbox, output, summary, working, clock, approval,
                   machines, sp>>

\* update_status(agent_dir, "failed", error): it loads the record as it is now
\* and writes it back with state failed
SweepWrite ==
    /\ wd.role \in Roles
    /\ wd.error # NoError
    /\ status' = [status EXCEPT ![wd.role] = update_status(@, "failed", wd.error, clock)]
    /\ wd' = SweepNext(wd)
    /\ lastOp' = [op |-> "watchdog", outcome |-> "FAIL", role |-> wd.role,
                  error |-> wd.error, minutes |-> wd.minutes, flow_writes |-> <<>>]
    /\ UNCHANGED <<n, manifest, inbox, output, summary, working, clock, approval,
                   machines, sp>>

NextRace == Advance \/ SweepBegin \/ SweepRead \/ SweepWrite \/ WorkerMayStop

\* the sweep runs while the worker runs
SpecRace == InitPacket /\ [][NextRace]_vars

\* --------------------------------- spawn_role, one file access at a time
SpawnSteps_requestFirst ==
    <<"request", "workspace", "instructions", "status", "prompt", "manifest">>

\* the writes of a spawn in the order of the code: spawn_role (pipeline.py
\* 206-242), then the manifest in orchestrate (348-353)
SpawnSteps == <<"workspace", "instructions", "status", "prompt", "request", "manifest">>

\* orchestrate up to the call of spawn_role: the manifest with created -> pending
\* saved, the loop at the first role to spawn
SpawnBegin ==
    \E t \in Now :
      LET m1 == IF manifest.flow_state = "created"
                THEN update_flow_state(manifest, "pending") ELSE manifest
          res == OrchestrateLoop(1, m1, t)
      IN /\ sp = NoSpawn
         /\ Cardinality(running_roles) <= 1
         /\ res.outcome = "SPAWN"
         /\ manifest' = m1
         /\ sp' = [role |-> res.role, pc |-> 1, t |-> t]
         /\ lastOp' = [op |-> "spawn", outcome |-> "begin", role |-> res.role,
                       error |-> NoError, minutes |-> 0,
                       flow_writes |-> FlowWrite(manifest, m1)]
         /\ clock' = t
         /\ UNCHANGED <<n, status, inbox, output, summary, working, approval, machines, wd>>

\* the next write of the spawn under way
SpawnStep ==
    /\ sp.role \in Roles
    /\ LET r == sp.role
           step == SpawnSteps[sp.pc]
           m1 == [manifest EXCEPT !.current_role = r, !.last_spawned_at = sp.t]
       IN /\ status' = CASE step = "workspace" ->
                               [status EXCEPT ![r] = ensure_agent_workspace(@)]
                          [] step = "status" ->
                               [status EXCEPT ![r] = update_status(@, "pending", NoError, sp.t)]
                          [] OTHER -> status
          /\ inbox' = CASE step = "instructions" ->
                              [inbox EXCEPT ![r] = @ \cup {"instructions.md"}]
                         [] step = "prompt" ->
                              [inbox EXCEPT ![r] = @ \cup {"spawn_prompt.txt"}]
                         [] step = "request" ->
                              [inbox EXCEPT ![r] = @ \cup {"spawn_request.json"}]
                         [] OTHER -> inbox
          /\ manifest' = IF step = "manifest"
                         THEN (IF m1.flow_state = "pending"
                               THEN update_flow_state(m1, "running") ELSE m1)
                         ELSE manifest
          /\ lastOp' = [op |-> "spawn", outcome |-> step, role |-> r, error |-> NoError,
                        minutes |-> 0, flow_writes |-> FlowWrite(manifest, manifest')]
    /\ sp' = IF sp.pc < Len(SpawnSteps) THEN [sp EXCEPT !.pc = @ + 1] ELSE NoSpawn
    /\ UNCHANGED <<n, output, summary, working, clock, approval, machines, wd>>

\* the orchestrate process dies between two writes
Crash ==
    /\ sp.role \in Roles
    /\ sp' = NoSpawn
    /\ lastOp' = [op |-> "spawn", outcome |-> "crash", role |-> sp.role, error |-> NoError,
                  minutes |-> 0, flow_writes |-> <<>>]
    /\ UNCHANGED <<n, manifest, status, inbox, output, summary, working, clock, approval,
                   machines, wd>>

NextCrash == SpawnBegin \/ SpawnStep \/ Crash \/ WorkerMayStop

\* orchestrate, one write at a time and free to die, beside the worker
SpecCrash == InitPacket /\ [][NextCrash]_vars

\* ------------------------------------------------- pipeline.py approve
MissingRequired(paths) == [kind |-> "missing_required", paths |-> paths, minutes |-> 0]

\* approval.required_outputs of the roster: the output of every role
required == Roles

approve_missing_ignored == <<>>

\* the required outputs that do not exist in the run directory, in roster order
approve_missing ==
    SelectSeq([i \in 1..n |-> i], LAMBDA r : r \in required /\ ~output[r])

approve_replace_firstOnly(text) ==
    IF \E b \in DOMAIN text : ~text[b]
    THEN [text EXCEPT ![CHOOSE b \in DOMAIN text :
                          ~text[b] /\ \A c \in DOMAIN text : ~text[c] => b <= c] = TRUE]
    ELSE text

\* text.replace("- [ ]", "- [x]")
approve_replace(text) == [b \in DOMAIN text |-> TRUE]

\* the checklist the approve command leaves, and how it ends
approve(op) ==
    LET missing == approve_missing IN
    IF missing # <<>>
    THEN /\ checklist' = checklist
         /\ lastOp' = [op |-> op, outcome |-> "MISSING", role |-> NoRole,
                       error |-> MissingRequired(missing), minutes |-> 0,
                       flow_writes |-> <<>>]
    ELSE /\ checklist' = approve_replace(checklist)
         /\ lastOp' = [op |-> op, outcome |-> "APPROVED", role |-> NoRole,
                       error |-> NoError, minutes |-> 0, flow_writes |-> <<>>]

\* pipeline.py approve --run-id
Approve ==
    /\ approve("approve")
    /\ UNCHANGED <<n, manifest, status, inbox, output, summary, working, clock, machines, inflight>>

\* auto_approve.py ready: the packet files are there since create_run, so the
\* run is ready as long as a box is unchecked
ready == \E b \in DOMAIN checklist : ~checklist[b]

\* auto_approve.py main, for this run
AutoApprove ==
    /\ IF ready
       THEN approve("auto_approve")
       ELSE /\ checklist' = checklist
            /\ lastOp' = [op |-> "auto_approve", outcome |-> "SKIP", role |-> NoRole,
                          error |-> NoError, minutes |-> 0, flow_writes |-> <<>>]
    /\ UNCHANGED <<n, manifest, status, inbox, output, summary, working, clock, machines, inflight>>

NextApprove == Advance \/ Watchdog \/ WorkerDelivers \/ Approve \/ AutoApprove

SpecApprove == Init /\ [][NextApprove]_vars

\* ------------------------------------- flow_state_machine.py, method calls
run == <<n, manifest, status, inbox, output, summary, working, clock, lastOp>>

FlowTransition ==
    \E T \in FlowStates :
      LET res == FlowStateMachine_transition(flow_sm, T) IN
      /\ flow_sm' = res.state
      /\ call' = [machine |-> "flow", method |-> "transition", target |-> T,
                  result |-> IF res.raised THEN "StateTransitionError" ELSE "ok"]
      /\ UNCHANGED <<role_sm, run, approval, inflight>>

FlowCanTransition ==
    \E T \in FlowStates :
      /\ call' = [machine |-> "flow", method |-> "can_transition", target |-> T,
                  result |-> IF FlowStateMachine_can_transition(flow_sm, T)
                             THEN "true" ELSE "false"]
      /\ UNCHANGED <<flow_sm, role_sm, run, approval, inflight>>

FlowIsTerminal ==
    /\ call' = [machine |-> "flow", method |-> "is_terminal", target |-> "none",
                result |-> IF FlowStateMachine_is_terminal(flow_sm) THEN "true" ELSE "false"]
    /\ UNCHANGED <<flow_sm, role_sm, run, approval, inflight>>

RoleTransition ==
    \E T \in RoleStates :
      LET res == RoleStateMachine_transition(role_sm, T) IN
      /\ role_sm' = res.state
      /\ call' = [machine |-> "role", method |-> "transition", target |-> T,
                  result |-> IF res.raised THEN "StateTransitionError" ELSE "ok"]
      /\ UNCHANGED <<flow_sm, run, approval, inflight>>

RoleCanTransition ==
    \E T \in RoleStates :
      /\ call' = [machine |-> "role", method |-> "can_transition", target |-> T,
                  result |-> IF RoleStateMachine_can_transition(role_sm, T)
                             THEN "true" ELSE "false"]
      /\ UNCHANGED <<flow_sm, role_sm, run, approval, inflight>>

RoleIsTerminal ==
    /\ call' = [machine |-> "role", method |-> "is_terminal", target |-> "none",
                result |-> IF RoleStateMachine_is_terminal(role_sm) THEN "true" ELSE "false"]
    /\ UNCHANGED <<flow_sm, role_sm, run, approval, inflight>>

\* a machine is constructed in any of its states
InitFSM ==
    /\ InitRun
    /\ flow_sm \in FlowStates
    /\ role_sm \in RoleStates
    /\ call = NoCall

NextFSM ==
    \/ FlowTransition \/ FlowCanTransition \/ FlowIsTerminal
    \/ RoleTransition \/ RoleCanTransition \/ RoleIsTerminal

SpecFSM == InitFSM /\ [][NextFSM]_vars

\* ================================================================ claims
RangeOf(seq) == {seq[k] : k \in 1..Len(seq)}

\* C1: advance is idempotent: a second call that directly follows a call, with
\* no change in between, leaves the manifest as the first call left it and
\* performs no spawn and no status write.
C1_AdvanceTwiceIsNoOp ==
    [][(lastOp.op = "advance" /\ lastOp'.op = "advance")
        => (manifest' = manifest /\ status' = status /\ lastOp'.outcome # "SPAWN")]_vars

\* C2: when advance finds two or more roles running, the call aborts and the
\* manifest, every role status and every mailbox are as before the call.
C2_AbortLeavesAllUnchanged ==
    [][(lastOp'.op = "advance" /\ Cardinality(running_roles) > 1)
        => (manifest' = manifest /\ status' = status /\ inbox' = inbox)]_vars

\* C3: in every reachable state at most one role of the run is running.
C3_AtMostOneRunning ==
    Cardinality({r \in Roles : status[r].state = "running"}) <= 1

C3_Witness ==
    /\ n >= 2
    /\ status[1].state = "completed"
    /\ status[2].state = "running"

\* C4: every flow-state write made by an operation is a transition of the
\* FlowStateMachine table.
C4_FlowWritesInTable ==
    \A k \in 1..Len(lastOp.flow_writes) :
        \/ lastOp.flow_writes[k] = <<"created", "pending">>
        \/ lastOp.flow_writes[k] = <<"pending", "running">>
        \/ lastOp.flow_writes[k] = <<"running", "completed">>
        \/ lastOp.flow_writes[k] = <<"running", "failed">>
        \/ lastOp.flow_writes[k] = <<"completed", "archived">>
        \/ lastOp.flow_writes[k] = <<"failed", "archived">>

\* C5: every change of the state of a persisted role status is pending->running,
\* running->completed or running->failed; completed and failed never change.
C5_RoleStateMovesForward ==
    [][\A r \in Roles :
         (status[r].state # "none" /\ status'[r].state # status[r].state)
         => \/ status[r].state = "pending" /\ status'[r].state = "running"
            \/ status[r].state = "running" /\ status'[r].state \in {"completed", "failed"}]_vars

\* C6: when advance reaches a role that is completed but lacks its output or
\* its summary, the role becomes failed with an error naming every missing
\* path, the flow state becomes FAILED and the call ends with that error.
C6_MissingOutputsDowngrade ==
    [][\A i \in Roles :
         ( /\ lastOp'.op = "advance"
           /\ Cardinality({r \in Roles : status[r].state = "running"}) <= 1
           /\ \A j \in 1..(i - 1) : status[j].state = "completed" /\ output[j] /\ summary[j]
           /\ status[i].state = "completed"
           /\ ~(output[i] /\ summary[i]) )
         => /\ status'[i].state = "failed"
            /\ status'[i].error.kind = "missing_outputs"
            /\ ("output" \in RangeOf(status'[i].error.paths)) <=> ~output[i]
            /\ ("summary" \in RangeOf(status'[i].error.paths)) <=> ~summary[i]
            /\ manifest'.flow_state = "failed"
            /\ lastOp'.outcome = "FAILED"
            /\ lastOp'.role = i
            /\ lastOp'.error = status'[i].error]_vars

C6_Witness ==
    /\ lastOp.op = "advance"
    /\ lastOp.outcome = "FAILED"
    /\ lastOp.role \in Roles
    /\ status[lastOp.role].state = "failed"
    /\ status[lastOp.role].error.kind = "missing_outputs"
    /\ manifest.flow_state = "failed"

\* C7: a sweep with timeout T fails every running role whose elapsed time
\* exceeds T and leaves the record of every running role below T, and of
\* every role that is not running, unchanged.
C7_WatchdogTimeout ==
    [][lastOp'.op = "watchdog"
        => \A r \in Roles :
             LET s == status[r]
                 T == lastOp'.minutes * 60
                 elapsed == clock' - s.started
             IN /\ (s.state = "running" /\ s.started >= 0 /\ elapsed > T)
                      => status'[r].state = "failed"
                /\ (s.state = "running" /\ s.started >= 0 /\ elapsed < T)
                      => status'[r] = s
                /\ s.state # "running" => status'[r] = s]_vars

C7_Witness ==
    /\ lastOp.op = "watchdog"
    /\ lastOp.minutes = 1
    /\ Cardinality({r \in Roles : /\ status[r].state = "failed"
                                  /\ status[r].error.kind = "stale_running"
                                  /\ status[r].completed = clock
                                  /\ status[r].completed - status[r].started > 60}) >= 2

\* C8: roster [A, B], advance invoked again and again, the worker completing
\* each spawned role with both files: after A completes an advance call
\* spawns B with flow state RUNNING, after B completes an advance call sets
\* COMPLETED, and the run reaches COMPLETED.
C8_TwoRoleRunCompletes ==
    /\ (n = 2) => <>(manifest.flow_state = "completed")
    /\ (n = 2 /\ status[1].state = "completed" /\ status[2].state = "none")
          ~> (/\ lastOp.op = "advance" /\ lastOp.outcome = "SPAWN" /\ lastOp.role = 2
              /\ "spawn_request.json" \in inbox[2]
              /\ manifest.flow_state = "running")
    /\ (n = 2 /\ status[2].state = "completed")
          ~> (manifest.flow_state = "completed" /\ lastOp.outcome = "DONE")

C8_Witness ==
    /\ n = 2
    /\ status[1].state = "completed"
    /\ status[2].state = "completed"
    /\ manifest.flow_state = "completed"
    /\ lastOp.op = "advance"

\* C9: once the flow state is FAILED, no later advance call spawns a role.
C9_NoSpawnAfterFailed ==
    [][(manifest.flow_state = "failed" /\ lastOp'.op = "advance")
        => lastOp'.outcome # "SPAWN"]_vars

\* C10: advance spawns the role at position i only in a call in which every
\* role before i is completed and has both its output and its summary.
C10_SpawnInRosterOrder ==
    [][(lastOp'.op = "advance" /\ lastOp'.outcome = "SPAWN")
        => \A j \in 1..(lastOp'.role - 1) :
              status[j].state = "completed" /\ output[j] /\ summary[j]]_vars

C10_Witness ==
    /\ lastOp.op = "advance"
    /\ lastOp.outcome = "SPAWN"
    /\ lastOp.role = 2
    /\ status[1].state = "completed"
    /\ status[2].state = "pending"

\* C11: approve, called directly or through auto_approve, changes the
\* checklist only when the run's flow state is COMPLETED.
C11_ApproveOnlyWhenCompleted ==
    [][(lastOp'.op \in {"approve", "auto_approve"} /\ manifest.flow_state # "completed")
        => checklist' = checklist]_vars

\* C12: approve is all-or-nothing and leaves the flow state alone: with a
\* required artifact missing it reports the missing names and changes no box,
\* with all of them present every box is checked; the manifest is unchanged.
C12_ApproveAllOrNothing ==
    [][lastOp'.op = "approve"
        => /\ manifest' = manifest
           /\ IF \E r \in Roles : ~output[r]
              THEN /\ checklist' = checklist
                   /\ lastOp'.outcome = "MISSING"
                   /\ RangeOf(lastOp'.error.paths) = {r \in Roles : ~output[r]}
              ELSE /\ \A b \in 1..7 : checklist'[b]
                   /\ lastOp'.outcome = "APPROVED"]_vars

C12_Witness ==
    /\ n >= 1
    /\ lastOp.op = "approve"
    /\ lastOp.outcome = "APPROVED"
    /\ \A b \in 1..7 : checklist[b]
    /\ manifest.flow_state = "running"

\* C13: one advance call spawns at most one role and changes the state of at
\* most one role status.
C13_AtMostOneRolePerCall ==
    [][lastOp'.op = "advance"
        => /\ Cardinality({r \in Roles : status'[r].state # status[r].state}) <= 1
           /\ Cardinality({r \in Roles : status'[r] # status[r] \/ inbox'[r] # inbox[r]}) <= 1
           /\ \A r \in Roles :
                ("spawn_request.json" \in inbox'[r] /\ "spawn_request.json" \notin inbox[r])
                => (lastOp'.outcome = "SPAWN" /\ lastOp'.role = r)]_vars

C13_Witness ==
    /\ n >= 2
    /\ lastOp.op = "advance"
    /\ lastOp.outcome = "SPAWN"
    /\ lastOp.role = 1
    /\ status[1].state = "pending"
    /\ status[2].state = "none"
    /\ inbox[2] = {}

\* C14: watchdog and approve are idempotent: a second run directly after the
\* first, with the same clock reading and timeout, leaves the role statuses,
\* the manifest and the checklist as the first run left them.
C14_WatchdogApproveIdempotent ==
    [][( \/ /\ lastOp.op = "watchdog" /\ lastOp'.op = "watchdog"
            /\ lastOp'.minutes = lastOp.minutes /\ clock' = clock
         \/ lastOp.op = "approve" /\ lastOp'.op = "approve" )
        => (status' = status /\ manifest' = manifest /\ checklist' = checklist)]_vars

C14_Witness ==
    /\ lastOp.op = "watchdog"
    /\ \E r \in Roles : /\ status[r].state = "failed"
                        /\ status[r].error.kind = "stale_running"
                        /\ status[r].completed = clock
    /\ \E b \in 1..7 : checklist[b]

\* the transition tables as the state machines document them
AllowedFlow ==
    { <<"created", "pending">>, <<"pending", "running">>, <<"running", "completed">>,
      <<"running", "failed">>, <<"completed", "archived">>, <<"failed", "archived">> }

AllowedRole ==
    { <<"pending", "running">>, <<"running", "completed">>, <<"running", "failed">> }

CallAllowed ==
    IF call'.machine = "flow" THEN <<flow_sm, call'.target>> \in AllowedFlow
                              ELSE <<role_sm, call'.target>> \in AllowedRole

\* C15: in every state S and for every target T, can_transition(T) is true
\* exactly when T is in the allowed set of S and does not change the state;
\* transition(T) succeeds exactly when can_transition(T) is true.
C15_CanTransitionIsTheTable ==
    [][/\ call'.method = "can_transition"
          => /\ call'.result = (IF CallAllowed THEN "true" ELSE "false")
             /\ flow_sm' = flow_sm
             /\ role_sm' = role_sm
       /\ call'.method = "transition"
          => (call'.result = "ok" <=> CallAllowed)]_vars

C15_Witness ==
    /\ call.machine = "role"
    /\ call.method = "can_transition"
    /\ call.target = "failed"
    /\ call.result = "true"
    /\ role_sm = "running"

\* C16: transition(T) with T outside the allowed set raises
\* StateTransitionError and leaves the state unchanged, with T inside it sets
\* the state to T; every change of a machine's state is a step of its table.
C16_TransitionFollowsTheTable ==
    [][/\ (call'.method = "transition" /\ call'.machine = "flow")
          => IF <<flow_sm, call'.target>> \in AllowedFlow
             THEN flow_sm' = call'.target /\ call'.result = "ok"
             ELSE flow_sm' = flow_sm /\ call'.result = "StateTransitionError"
       /\ (call'.method = "transition" /\ call'.machine = "role")
          => IF <<role_sm, call'.target>> \in AllowedRole
             THEN role_sm' = call'.target /\ call'.result = "ok"
             ELSE role_sm' = role_sm /\ call'.result = "StateTransitionError"
       /\ flow_sm' # flow_sm => <<flow_sm, flow_sm'>> \in AllowedFlow
       /\ role_sm' # role_sm => <<role_sm, role_sm'>> \in AllowedRole]_vars

C16_Witness ==
    /\ call.machine = "role"
    /\ call.method = "transition"
    /\ call.target = "pending"
    /\ call.result = "StateTransitionError"
    /\ role_sm = "running"

\* C17: is_terminal is true exactly in ARCHIVED for the flow machine and in
\* COMPLETED and FAILED for the role machine; from a terminal state every
\* transition fails.
C17_TerminalStates ==
    [][/\ (call'.method = "is_terminal" /\ call'.machine = "flow")
          => (call'.result = "true" <=> flow_sm = "archived")
       /\ (call'.method = "is_terminal" /\ call'.machine = "role")
          => (call'.result = "true" <=> role_sm \in {"completed", "failed"})
       /\ (call'.method = "transition" /\ call'.machine = "flow" /\ flow_sm = "archived")
          => (call'.result = "StateTransitionError" /\ flow_sm' = "archived")
       /\ (call'.method = "transition" /\ call'.machine = "role"
             /\ role_sm \in {"completed", "failed"})
          => (call'.result = "StateTransitionError" /\ role_sm' = role_sm)]_vars

C17_Witness ==
    /\ call.machine = "flow"
    /\ call.method = "is_terminal"
    /\ call.result = "true"
    /\ flow_sm = "archived"

\* C18: whatever the timeout, a sweep fails every running role whose started
\* timestamp is missing or does not parse, with an error that tells the two
\* cases apart, and treats the other roles as usual.
C18_WatchdogBadTimestamp ==
    [][lastOp'.op = "watchdog"
        => \A r \in Roles :
             /\ (status[r].state = "running" /\ status[r].started = NoTime)
                  => (status'[r].state = "failed" /\ status'[r].error.kind = "missing_started")
             /\ (status[r].state = "running" /\ status[r].started = InvalidTime)
                  => (status'[r].state = "failed" /\ status'[r].error.kind = "invalid_started")
             /\ status[r].state # "running" => status'[r] = status[r]]_vars

C18_Witness ==
    /\ lastOp.op = "watchdog"
    /\ lastOp.minutes = 1
    /\ \E r \in Roles : /\ status[r].state = "failed"
                        /\ status[r].error.kind = "invalid_started"
                        /\ status[r].started = InvalidTime

\* C19: a sweep never changes the manifest, also when it fails a role; the
\* flow state becomes FAILED only in an advance call.
C19_WatchdogLeavesManifest ==
    [][/\ lastOp'.op = "watchdog" => manifest' = manifest
       /\ (manifest'.flow_state = "failed" /\ manifest.flow_state # "failed")
            => lastOp'.op = "advance"]_vars

C19_Witness ==
    /\ lastOp.op = "watchdog"
    /\ manifest.flow_state = "running"
    /\ \E r \in Roles : /\ status[r].state = "failed"
                        /\ status[r].error.kind = "missing_started"
                        /\ manifest.current_role = r

\* C20: preparing the workspace of a role that already has a status record
\* keeps the record, in pipeline.py and in orchestrate.py.
C20_PrepareKeepsStatus ==
    [][\A r \in Roles :
         status[r] # NoStatus
         => /\ (lastOp'.op = "advance" /\ lastOp'.outcome = "SPAWN" /\ lastOp'.role = r)
                 => ensure_agent_workspace(status[r]) = status[r]
            /\ lastOp'.op = "orchestrate_py"
                 => ensure_agent_workspace_standalone(status[r]) = status[r]]_vars

\* C21: once the manifest's flow state is COMPLETED, FAILED or ARCHIVED, no
\* advance call changes it, whatever the role statuses and artifacts are.
C21_TerminalFlowStateStays ==
    [][/\ (lastOp'.op = "advance" /\ manifest.flow_state \in {"completed", "failed", "archived"})
          => manifest'.flow_state = manifest.flow_state
       /\ \A s \in {"completed", "failed", "archived"}, T \in FlowStates :
            update_flow_state([manifest EXCEPT !.flow_state = s], T).flow_state = s]_vars

C21_Witness ==
    /\ lastOp.op = "advance"
    /\ lastOp.outcome = "SPAWN"
    /\ manifest.flow_state = "failed"
    /\ lastOp.flow_writes = <<>>

\* C22: an advance call sets the flow state to COMPLETED only if every role of
\* the roster is completed and has its output and its summary in that call.
C22_CompletedOnlyWhenAllValidated ==
    [][(lastOp'.op = "advance" /\ manifest'.flow_state = "completed"
          /\ manifest.flow_state # "completed")
        => \A r \in Roles : status[r].state = "completed" /\ output[r] /\ summary[r]]_vars

C22_Witness ==
    /\ n >= 1
    /\ lastOp.op = "advance"
    /\ lastOp.outcome = "DONE"
    /\ lastOp.flow_writes = << <<"running", "completed">> >>
    /\ manifest.flow_state = "completed"

\* C25: when the first role in roster order that is not completed is running,
\* advance changes no role status, no mailbox and no field of the manifest.
C25_WaitChangesNothing ==
    [][(/\ lastOp'.op = "advance"
        /\ \E r \in Roles : /\ status[r].state = "running"
                            /\ \A q \in 1..(r - 1) : status[q].state = "completed")
        => (status' = status /\ inbox' = inbox /\ manifest' = manifest)]_vars

\* C27: after the main of orchestrate.py has run on a roster of two or more
\* roles, at most one role of the run is running.
C27_StandaloneKeepsSequential ==
    [][(lastOp'.op = "orchestrate_py" /\ n >= 2)
        => Cardinality({r \in Roles : status'[r].state = "running"}) <= 1]_vars

\* C29: a manifest that names a current role has flow state RUNNING,
\* COMPLETED, FAILED or ARCHIVED, and after an advance call that spawned a
\* role the manifest's current role is that role.
C29_CurrentRoleImpliesStarted ==
    [][/\ manifest.current_role # NoRole
          => manifest.flow_state \in {"running", "completed", "failed", "archived"}
       /\ manifest'.current_role # NoRole
          => manifest'.flow_state \in {"running", "completed", "failed", "archived"}
       /\ (lastOp'.op = "advance" /\ lastOp'.outcome = "SPAWN")
          => /\ manifest'.current_role = lastOp'.role
             /\ "spawn_request.json" \in inbox'[manifest'.current_role]
             /\ status'[manifest'.current_role].state = "pending"]_vars

C29_Witness ==
    /\ n >= 2
    /\ lastOp.op = "advance"
    /\ lastOp.outcome = "SPAWN"
    /\ manifest.current_role = 2
    /\ manifest.flow_state = "running"
    /\ lastOp.flow_writes = <<>>

\* C28: in a run produced by create-run, a completed role whose worker wrote
\* the summary and never the output artifact does not pass validation: the
\* advance call that reaches it makes it failed.
C28_PlaceholderIsNotAnOutput ==
    [][\A r \in Roles :
         ( /\ lastOp'.op = "advance"
           /\ \A q \in 1..(r - 1) : status[q].state = "completed"
           /\ status[r].state = "completed"
           /\ summary[r] )
         => status'[r].state = "failed"]_vars

\* a running role whose timeout, whatever the sweep's setting, ends within the
\* modelled span of time
StuckRunning(r) ==
    /\ r <= n
    /\ status[r].state = "running"
    /\ \/ status[r].started < 0
       \/ status[r].started + MaxMinutes * 60 < MaxClock

\* C24: a role does not stay running for ever: if its worker never writes a
\* terminal status, a sweep fails it, and once a role is failed an advance call
\* sets the flow state to FAILED.
C24_StuckRoleReclaimed ==
    /\ [][\A r \in Roles :
            (StuckRunning(r) /\ status'[r].state # "running")
            => \/ lastOp'.op = "worker" /\ lastOp'.role = r
               \/ lastOp'.op = "watchdog" /\ status'[r].state = "failed"]_vars
    /\ (\E r \in Roles : StuckRunning(r) \/ status[r].state = "failed")
          ~> /\ \A r \in Roles : ~StuckRunning(r)
             /\ (\E r \in Roles : status[r].state = "failed")
                   => manifest.flow_state = "failed"

C24_Witness ==
    /\ lastOp.op = "advance"
    /\ lastOp.outcome = "HALT"
    /\ lastOp.flow_writes = << <<"running", "failed">> >>
    /\ status[lastOp.role].error.kind = "stale_running"
    /\ status[lastOp.role].started = 0
    /\ lastOp.role \in working

\* C23: under every interleaving of a sweep with the worker, the watchdog
\* writes failed only over a status record whose persisted state is running
\* at the time of the write.
C23_WatchdogWritesOverRunningOnly ==
    [][(wd.role \in Roles /\ wd.error # NoError /\ wd' # wd)
        => status[wd.role].state = "running"]_vars

\* C26: a role that has a SpawnRequest has a status record, also after a crash
\* in the middle of a spawn, and the status is pending when the request is
\* first written.
C26_StatusBeforeSpawnRequest ==
    [][\A r \in Roles :
         /\ "spawn_request.json" \in inbox[r] => status[r] # NoStatus
         /\ "spawn_request.json" \in inbox'[r] => status'[r] # NoStatus
         /\ ("spawn_request.json" \in inbox'[r] /\ "spawn_request.json" \notin inbox[r])
              => /\ status'[r].state = "pending"
                 /\ lastOp'.op = "spawn" => status[r].state = "pending"]_vars

C26_Witness ==
    /\ lastOp.op = "spawn"
    /\ lastOp.outcome = "crash"
    /\ "spawn_request.json" \in inbox[lastOp.role]
    /\ status[lastOp.role].state = "pending"
    /\ manifest.current_role # lastOp.role
    /\ manifest.flow_state = "pending"

====
